---------------------------- MODULE Spec2Model ----------------------------
(***************************************************************************)
(* Model of AlpacaService (src/src/main.py): four gateway operations, each *)
(* wrapped by two `ratelimit.limits` decorators (10 calls / 1 s outermost, *)
(* 200 calls / 60 s inside it) around a body that checks the connection    *)
(* state, validates, calls the remote brokerage and normalizes the result. *)
(*                                                                         *)
(* A `limits(calls, period)` decorator object owns num_calls, last_reset   *)
(* and an RLock.  Its wrapper does, under the lock: if period - (clock() - *)
(* last_reset) <= 0 then num_calls = 0 and last_reset = clock(); then      *)
(* num_calls += 1; then raises RateLimitException if num_calls > calls.    *)
(* The lock is released BEFORE the wrapped function is called.  Each       *)
(* decorator line in the class body builds its own object when the module  *)
(* is imported, so there are eight of them: one pair per method.           *)
(***************************************************************************)
EXTENDS Integers, Sequences, FiniteSets, TLC

(* ------------------------------ constants ------------------------------ *)

CALLS_PER_SECOND == 10

PERIOD_PER_SECOND == 1

CALLS_PER_MINUTE == 200

PERIOD_PER_MINUTE == 60

(* ------------------------------- bounds -------------------------------- *)

\* clock resolution: ticks per second
TicksPerSecond == 2

\* last clock value (in ticks) of the short-horizon specifications
MaxTime == 2

\* last clock value (in seconds) of the long-horizon specification
MaxSecondsSlow == 20

\* calls that may reach the inner decorators in the short-horizon specifications
MaxCalls == 12

\* rejected attempts a window may count beyond its capacity before callers stop
MaxOver == 1

\* concurrent callers
NumThreads == 2

\* operations one run exercises
MaxWorkload == 2

\* orders one run of the order-validation specification submits
MaxOrderCalls == 1

\* AlpacaService instances constructed in one process
MaxInstances == 2

\* slots of a second a caller in a hurry may leave unused
MaxIdleSlots == 1

\* key presses the terminal UI receives in a run
MaxPresses == 3

(* ------------------------------ vocabulary ----------------------------- *)

Ops == {"get_account_info", "get_quotes", "list_positions", "submit_trade_order"}

Windows == {"fast", "slow"}

Threads == 1..NumThreads

None == "None"

NoKeysMessage == "API keys not found. Please set APCA_API_KEY_ID and APCA_API_SECRET_KEY in your .env file."

ConnectFailMessage == "Failed to connect to Alpaca API at https://paper-api.alpaca.markets: 503"

Capacity(w) == IF w = "fast" THEN CALLS_PER_SECOND ELSE CALLS_PER_MINUTE

Period(w) == IF w = "fast" THEN PERIOD_PER_SECOND ELSE PERIOD_PER_MINUTE

PeriodTicks(w) == Period(w) * TicksPerSecond

VARIABLES
    now,          \* the limiter clock, in ticks
    num_calls,    \* [op][window]: RateLimitDecorator.num_calls
    last_reset,   \* [op][window]: RateLimitDecorator.last_reset
    api,          \* AlpacaService.api is set (TRUE) or None (FALSE)
    error_message,\* AlpacaService.error_message (None or text)
    pc,           \* [thread]: "idle", "fast", "slow" or "body"
    cur,          \* [thread]: the operation the thread is calling
    recorded,     \* [thread]: windows that let the current call through ({} when idle)
    passed,       \* [op][window]: calls let through since the window's reset
    recent,       \* [op]: calls let through by both windows, per tick, newest first
    admitted,     \* [op]: calls let through by both windows since import
    last,         \* outcome of the call that completed most recently
    workload,     \* operations the callers of this run use
    built,        \* the construction that made the current AlpacaService
    via,          \* [op]: instances let through the fast window since its reset
    served,       \* [op][window]: bodies run since the window's reset
    ui,           \* the terminal UI: handler running, key presses waiting
    args          \* [thread]: the order passed to submit_trade_order, NoOrder
                  \* while the model leaves it open until the body reads it

vars == <<now, num_calls, last_reset, api, error_message, pc, cur, recorded,
          passed, recent, admitted, last, workload, built, via, served, ui,
          args>>

instVars == <<built, via>>

connVars == <<api, error_message>>

limiterVars == <<num_calls, last_reset, passed>>

(* ------------------------- the limiter's arithmetic -------------------- *)

\* RateLimitDecorator.__period_remaining: period - (clock() - last_reset)
PeriodRemaining(o, w) == PeriodTicks(w) - (now - last_reset[o][w])

\* `if period_remaining <= 0`: the window has elapsed and is reset
Elapsed(o, w) == PeriodRemaining(o, w) <= 0

\* an off-by-one limit check: one attempt too many gets through
ExceedsOffByOne(n, w) == n > Capacity(w) + 1

\* a limit check that lets every attempt through
ExceedsNever(n, w) == n < 0

\* `if self.num_calls > self.clamped_calls`
Exceeds(n, w) == n > Capacity(w)

\* what num_calls will be taken to be by the next wrapper run
EffectiveCalls(o, w) == IF Elapsed(o, w) THEN 0 ELSE num_calls[o][w]

\* callers stop hammering a window that already counts MaxOver rejections
CanCall(o) == \A w \in Windows : EffectiveCalls(o, w) < Capacity(w) + MaxOver

RECURSIVE SumSeq(_)
SumSeq(s) == IF s = <<>> THEN 0 ELSE Head(s) + SumSeq(Tail(s))

RECURSIVE SumOver(_, _)
SumOver(f, S) == IF S = {} THEN 0
                 ELSE LET x == CHOOSE y \in S : TRUE IN f[x] + SumOver(f, S \ {x})

\* calls that reached the inner (slow) decorators, over all operations
CallsCharged == SumOver([o \in Ops |-> num_calls[o]["slow"]], Ops)

\* the per-tick log after d more ticks: entries older than the fast period drop out
Shift(s, d) == [i \in 1..Len(s) |-> IF i <= d THEN 0 ELSE s[i - d]]

(* ------------------------------ results -------------------------------- *)

\* the arguments of a call that is not a submit_trade_order
NoOrder == [symbol |-> "none", qty |-> 0, side |-> "none", order_type |-> "none",
            time_in_force |-> "none", limit_price |-> None, stop_price |-> None,
            client_order_id |-> None]

\* a key that order_params does not hold
Absent == "absent"

\* no order_params were built
NoParams == [symbol |-> "none", qty |-> 0, side |-> "none", type |-> "none",
             time_in_force |-> "none", limit_price |-> Absent, stop_price |-> Absent,
             client_order_id |-> Absent]

\* the remote placed no order
NoRemoteOrder == [id |-> "none", client_order_id |-> "none", symbol |-> "none",
                  qty |-> "0", side |-> "none", type |-> "none",
                  time_in_force |-> "none", status |-> "none", created_at |-> None,
                  limit_price |-> None, stop_price |-> None]

\* no order record was returned
NoOrderRecord == [id |-> "none", client_order_id |-> "none", symbol |-> "none",
                  qty |-> 0, side |-> "none", type |-> "none",
                  time_in_force |-> "none", status |-> "none", created_at |-> None,
                  limit_price |-> None, stop_price |-> None]

\* what is known of a completed call.  op, how, error, raw_error, value and
\* symbols (the keys of a quotes result, the symbols of a positions result)
\* are what the caller gets; remote counts the remote calls made; by and
\* recorded tell what the limiter did; cause, order, requested and response
\* keep the call's inputs: what the remote did, the order passed, the symbols
\* passed, the symbols the remote answered with; age is the time, in ticks and
\* up to the fast period, since the fast window rejected the call; instance
\* numbers the AlpacaService the call was made through; sent is the
\* order_params given to the remote, placed the order the remote answered
\* with, ack the order record returned to the caller.
NoResult == [op |-> "none", how |-> "none", error |-> "", raw_error |-> "",
             value |-> "none", remote |-> 0, by |-> "none", recorded |-> {},
             symbols |-> {}, cause |-> "none", order |-> NoOrder,
             requested |-> <<>>, response |-> {}, age |-> 0, instance |-> 0,
             sent |-> NoParams, placed |-> NoRemoteOrder, ack |-> NoOrderRecord]

\* a dict returned to the caller
Returned(o, err, raw, val, rem) ==
    [NoResult EXCEPT !.op = o, !.how = "returned", !.error = err, !.raw_error = raw,
                     !.value = val, !.remote = rem, !.recorded = Windows]

\* RateLimitException('too many calls', period_remaining) leaving the wrapper of w
Raised(o, w, rec) ==
    [NoResult EXCEPT !.op = o, !.how = "raised", !.error = "too many calls",
                     !.by = w, !.recorded = rec, !.instance = built.id]

\* result r of a call together with the inputs that produced it
Seen(r, out, order, requested, response) ==
    [r EXCEPT !.cause = IF r.remote = 0 THEN "none" ELSE out.type,
              !.order = order,
              !.requested = requested,
              !.response = IF r.remote = 0 \/ out.type # "ok" THEN {} ELSE response]

\* result r, d ticks later
Aged(r, d) ==
    IF r.by = "fast"
    THEN [r EXCEPT !.age = IF @ + d < PeriodTicks("fast") THEN @ + d ELSE PeriodTicks("fast")]
    ELSE r

(* ------------------------ the remote brokerage ------------------------- *)

\* what a remote call can do: answer, or throw tradeapi.rest.APIError (the
\* broker's structured error) or any other exception (network, decoding).
\* The SDK never throws ratelimit's RateLimitException.
\* data is what the remote answers with: a dict of quotes, a list of positions
ApiError == [type |-> "APIError", text |-> "forbidden", code |-> "403", data |-> <<>>]

OtherError == [type |-> "Exception", text |-> "timeout", code |-> "", data |-> <<>>]

TooManyCalls == [type |-> "RateLimitException", text |-> "too many calls", code |-> "",
                 data |-> <<>>]

NoError == [type |-> "ok", text |-> "", code |-> "", data |-> <<>>]

RemoteOutcomes == {NoError, ApiError, OtherError}

Symbols == {"AAPL", "MSFT"}

\* a quote object of the SDK: ask and bid price and size, timestamp
Quote == [ap |-> "101", bp |-> "100", as_ |-> "3", bs |-> "2", t |-> None]

\* get_latest_quotes answers with a dict keyed by the symbols it has quotes for
QuoteResponses == UNION {[S -> {Quote}] : S \in SUBSET Symbols}

QuoteOutcomes ==
    {[NoError EXCEPT !.data = d] : d \in QuoteResponses} \cup {ApiError, OtherError}

\* a position object of the SDK
Position(symbol) == [symbol |-> symbol, qty |-> "5", current_price |-> "101"]

\* list_positions answers with a list of positions
PositionLists == {<<>>, <<Position("AAPL")>>, <<Position("AAPL"), Position("MSFT")>>}

PositionOutcomes ==
    {[NoError EXCEPT !.data = d] : d \in PositionLists} \cup {ApiError, OtherError}

(* --------------------------- operation bodies -------------------------- *)

\* get_account_info, lines 70-95
GetAccountInfoBody(out) ==
    IF error_message # None /\ ~api
    THEN Returned("get_account_info", error_message, "", "none", 0)
    ELSE IF ~api
    THEN Returned("get_account_info", "API not initialized (unknown reason).", "", "none", 0)
    ELSE IF out.type = "ok"
    THEN Returned("get_account_info", "", "", "account", 1)
    ELSE IF out.type = "RateLimitException"
    THEN Returned("get_account_info",
                  "Rate limit exceeded for get_account_info: " \o out.text
                      \o ". Please try again shortly.", "", "none", 1)
    ELSE Returned("get_account_info", "Failed to fetch account info: " \o out.text,
                  "", "none", 1)

\* get_quotes, lines 116-125: an early exit from the loop keeps one quote only
ProcessedQuotesFirstOnly(quote_data) ==
    IF DOMAIN quote_data = {} THEN <<>>
    ELSE LET symbol == CHOOSE s \in DOMAIN quote_data : TRUE
         IN  [s \in {symbol} |-> [ask_price |-> quote_data[s].ap]]

\* get_quotes, lines 116-125: one entry per item of the remote's answer
ProcessedQuotes(quote_data) ==
    [symbol \in DOMAIN quote_data |->
        LET quote == quote_data[symbol]
        IN  [ask_price |-> quote.ap, bid_price |-> quote.bp,
             ask_size |-> quote.as_, bid_size |-> quote.bs,
             timestamp |-> IF quote.t # None THEN quote.t ELSE None]]

\* get_quotes without `if not symbols: return {}`
GetQuotesBodyNoShortCut(symbols, out) ==
    IF error_message # None /\ ~api
    THEN Returned("get_quotes", error_message, "", "none", 0)
    ELSE IF ~api
    THEN Returned("get_quotes", "API not initialized.", "", "none", 0)
    ELSE IF out.type = "ok"
    THEN [Returned("get_quotes", "", "", "quotes", 1)
             EXCEPT !.symbols = DOMAIN ProcessedQuotes(out.data)]
    ELSE Returned("get_quotes", "Failed to fetch quotes: " \o out.text, "", "none", 1)

\* get_quotes, lines 101-129
GetQuotesBody(symbols, out) ==
    IF error_message # None /\ ~api
    THEN Returned("get_quotes", error_message, "", "none", 0)
    ELSE IF ~api
    THEN Returned("get_quotes", "API not initialized.", "", "none", 0)
    ELSE IF symbols = <<>>
    THEN Returned("get_quotes", "", "", "empty", 0)
    ELSE IF out.type = "ok"
    THEN [Returned("get_quotes", "", "", "quotes", 1)
             EXCEPT !.symbols = DOMAIN ProcessedQuotes(out.data)]
    ELSE IF out.type = "RateLimitException"
    THEN Returned("get_quotes",
                  "Rate limit exceeded for get_quotes: " \o out.text
                      \o ". Please try again shortly.", "", "none", 1)
    ELSE Returned("get_quotes", "Failed to fetch quotes: " \o out.text, "", "none", 1)

\* list_positions, lines 155-173: one entry per position, from its own fields
EnrichedPositions(positions) ==
    [i \in 1..Len(positions) |->
        [symbol |-> positions[i].symbol, qty |-> positions[i].qty,
         current_price |-> IF positions[i].current_price # None
                           THEN positions[i].current_price ELSE None]]

\* the symbols of a list of positions
PositionSymbols(positions) == {positions[i].symbol : i \in 1..Len(positions)}

\* list_positions looking every position's quote up with a remote call of its own
ListPositionsBodyWithLookups(out) ==
    IF error_message # None /\ ~api
    THEN Returned("list_positions", error_message, "", "none", 0)
    ELSE IF ~api
    THEN Returned("list_positions", "API not initialized.", "", "none", 0)
    ELSE IF out.type = "ok"
    THEN [Returned("list_positions", "", "", "positions", 1 + Len(out.data))
             EXCEPT !.symbols = PositionSymbols(EnrichedPositions(out.data))]
    ELSE Returned("list_positions", "Failed to fetch positions: " \o out.text,
                  "", "none", 1)

\* list_positions, lines 135-177
ListPositionsBody(out) ==
    IF error_message # None /\ ~api
    THEN Returned("list_positions", error_message, "", "none", 0)
    ELSE IF ~api
    THEN Returned("list_positions", "API not initialized.", "", "none", 0)
    ELSE IF out.type = "ok"
    THEN IF out.data = <<>>
         THEN Returned("list_positions", "", "", "empty", 1)
         ELSE [Returned("list_positions", "", "", "positions", 1)
                  EXCEPT !.symbols = PositionSymbols(EnrichedPositions(out.data))]
    ELSE IF out.type = "RateLimitException"
    THEN Returned("list_positions",
                  "Rate limit exceeded for list_positions: " \o out.text
                      \o ". Please try again shortly.", "", "none", 1)
    ELSE Returned("list_positions", "Failed to fetch positions: " \o out.text,
                  "", "none", 1)

\* the order requests tried.  In the first family every rule of the validation
\* can fail or pass; in the second the symbol comes in every case and each
\* optional parameter is left out, given, or (client_order_id) given empty
Orders ==
    [symbol : {"", "aapl"}, qty : {0, 1}, side : {"buy", "hold"},
     order_type : {"market", "limit", "stop", "stop_limit", "trailing_stop", "bogus"},
     time_in_force : {"day", "never"},
     limit_price : {None, "1"}, stop_price : {None, "1"}, client_order_id : {None}]
    \cup
    [symbol : {"aapl", "Aapl", "AAPL"}, qty : {1, 2}, side : {"buy"},
     order_type : {"market", "limit"}, time_in_force : {"day"},
     limit_price : {None, "1"}, stop_price : {None, "1"},
     client_order_id : {None, "", "c1"}]

\* the validation with the side checked before the quantity
ValidationErrorSideFirst(r) ==
    IF r.symbol = "" THEN "Invalid symbol."
    ELSE IF r.side \notin {"buy", "sell"} THEN "Invalid side. Must be 'buy' or 'sell'."
    ELSE IF r.qty <= 0 THEN "Invalid quantity."
    ELSE IF r.order_type \notin {"market", "limit", "stop", "stop_limit", "trailing_stop"}
    THEN "Invalid order type."
    ELSE IF r.time_in_force \notin {"day", "gtc", "opg", "cls", "ioc", "fok"}
    THEN "Invalid time in force."
    ELSE IF r.order_type \in {"limit", "stop_limit"} /\ r.limit_price = None
    THEN "Limit price is required for limit and stop_limit orders."
    ELSE IF r.order_type \in {"stop", "stop_limit"} /\ r.stop_price = None
    THEN "Stop price is required for stop and stop_limit orders."
    ELSE ""

\* submit_trade_order, lines 198-215: the message of the first rule that fails, or ""
ValidationError(r) ==
    IF r.symbol = "" THEN "Invalid symbol."
    ELSE IF r.qty <= 0 THEN "Invalid quantity."
    ELSE IF r.side \notin {"buy", "sell"} THEN "Invalid side. Must be 'buy' or 'sell'."
    ELSE IF r.order_type \notin {"market", "limit", "stop", "stop_limit", "trailing_stop"}
    THEN "Invalid order type."
    ELSE IF r.time_in_force \notin {"day", "gtc", "opg", "cls", "ioc", "fok"}
    THEN "Invalid time in force."
    ELSE IF r.order_type \in {"limit", "stop_limit"} /\ r.limit_price = None
    THEN "Limit price is required for limit and stop_limit orders."
    ELSE IF /\ r.order_type \in {"stop", "stop_limit", "trailing_stop"}
            /\ r.stop_price = None
            /\ r.order_type # "trailing_stop"
            /\ r.order_type # "trailing_stop"
    THEN "Stop price is required for stop and stop_limit orders."
    ELSE ""

\* the message for a generic failure given to a structured broker error
ApiErrorMessageGeneric(out) == "Failed to submit order: " \o out.text

\* submit_trade_order, line 256: the message for tradeapi.rest.APIError
ApiErrorMessage(out) == "Alpaca API error: " \o out.text \o " (Code: " \o out.code \o ")"

\* submit_trade_order, line 258: the message for any other exception
OtherErrorMessage(out) == "Failed to submit order: " \o out.text

\* submit_trade_order sending the order to the remote before validating it
SubmitConnectedRemoteFirst(r, out) ==
    IF out.type = "APIError"
    THEN Returned("submit_trade_order", ApiErrorMessage(out), out.text, "none", 1)
    ELSE IF out.type # "ok"
    THEN Returned("submit_trade_order", OtherErrorMessage(out), out.text, "none", 1)
    ELSE IF ValidationError(r) # ""
    THEN Returned("submit_trade_order", ValidationError(r), "", "none", 1)
    ELSE Returned("submit_trade_order", "", "", "order", 1)

\* validation, remote call and normalization on a connected gateway, lines 198-258
SubmitConnected(r, out) ==
    IF ValidationError(r) # ""
    THEN Returned("submit_trade_order", ValidationError(r), "", "none", 0)
    ELSE IF out.type = "ok"
    THEN Returned("submit_trade_order", "", "", "order", 1)
    ELSE IF out.type = "RateLimitException"
    THEN Returned("submit_trade_order",
                  "Rate limit exceeded for submit_trade_order: " \o out.text
                      \o ". Please try again shortly.", "", "none", 1)
    ELSE IF out.type = "APIError"
    THEN Returned("submit_trade_order", ApiErrorMessage(out), out.text, "none", 1)
    ELSE Returned("submit_trade_order", OtherErrorMessage(out), out.text, "none", 1)

\* submit_trade_order, lines 193-258
SubmitTradeOrderBody(r, out) ==
    IF error_message # None /\ ~api
    THEN Returned("submit_trade_order", error_message, "", "none", 0)
    ELSE IF ~api
    THEN Returned("submit_trade_order", "API not initialized.", "", "none", 0)
    ELSE SubmitConnected(r, out)

\* the ways the symbols of Orders are spelled, by their upper-case spelling
Spellings == [u \in {"", "AAPL"} |-> IF u = "" THEN {""} ELSE {"aapl", "Aapl", "AAPL"}]

\* a symbol sent as it was given
UpperUnchanged(symbol) == symbol

\* symbol.upper(), line 220
Upper(symbol) ==
    IF \E u \in DOMAIN Spellings : symbol \in Spellings[u]
    THEN CHOOSE u \in DOMAIN Spellings : symbol \in Spellings[u]
    ELSE symbol

\* order_params, lines 219-231: limit_price and stop_price are added when they
\* are not None, client_order_id when it is truthy (neither None nor '')
OrderParams(r) ==
    [symbol |-> Upper(r.symbol),
     qty |-> r.qty,
     side |-> r.side,
     type |-> r.order_type,
     time_in_force |-> r.time_in_force,
     limit_price |-> IF r.limit_price # None THEN r.limit_price ELSE Absent,
     stop_price |-> IF r.stop_price # None THEN r.stop_price ELSE Absent,
     client_order_id |-> IF r.client_order_id \notin {None, ""}
                         THEN r.client_order_id ELSE Absent]

\* the broker writes a quantity as text
QtyText(n) == IF n = 0 THEN "0" ELSE IF n = 1 THEN "1" ELSE IF n = 2 THEN "2" ELSE "3"

\* float(order.qty), line 243
FloatOf(text) == IF text = "0" THEN 0 ELSE IF text = "1" THEN 1 ELSE IF text = "2" THEN 2 ELSE 3

\* float(order.limit_price) / float(order.stop_price), lines 249-250
PriceOf(text) == text \o ".0"

\* created_at.isoformat(), line 248
IsoFormat(stamp) == "2024-01-02T" \o stamp

\* the order entity self.api.submit_order answers with for the parameters p:
\* the broker echoes what it was sent, numbers the order, gives it a
\* client_order_id of its own when none was sent, and a status
RemoteOrder(p) ==
    [id |-> "order-1",
     client_order_id |-> IF p.client_order_id = Absent THEN "generated" ELSE p.client_order_id,
     symbol |-> p.symbol,
     qty |-> QtyText(p.qty),
     side |-> p.side,
     type |-> p.type,
     time_in_force |-> p.time_in_force,
     status |-> "accepted",
     created_at |-> "09:30:00",
     limit_price |-> IF p.limit_price = Absent THEN None ELSE p.limit_price,
     stop_price |-> IF p.stop_price = Absent THEN None ELSE p.stop_price]

\* the dict returned on success, lines 239-251
OrderRecord(order) ==
    [id |-> order.id,
     client_order_id |-> order.client_order_id,
     symbol |-> order.symbol,
     qty |-> FloatOf(order.qty),
     side |-> order.side,
     type |-> order.type,
     time_in_force |-> order.time_in_force,
     status |-> order.status,
     created_at |-> IF order.created_at # None THEN IsoFormat(order.created_at) ELSE None,
     limit_price |-> IF order.limit_price # None THEN PriceOf(order.limit_price) ELSE None,
     stop_price |-> IF order.stop_price # None THEN PriceOf(order.stop_price) ELSE None]

\* result x of submit_trade_order for the order r, with what went to the
\* remote and what came back
Submitted(x, r) ==
    IF x.remote = 0 THEN x
    ELSE [x EXCEPT !.sent = OrderParams(r),
                   !.placed = IF x.value = "order" THEN RemoteOrder(OrderParams(r))
                              ELSE NoRemoteOrder,
                   !.ack = IF x.value = "order"
                           THEN OrderRecord(RemoteOrder(OrderParams(r)))
                           ELSE NoOrderRecord]

\* one (request, remote outcome) pair for each distinct thing a connected
\* gateway can answer to the requests of Orders
OrderCases ==
    LET all == Orders \X RemoteOutcomes
        answers == {SubmitConnected(p[1], p[2]) : p \in all}
    IN  {CHOOSE p \in all : SubmitConnected(p[1], p[2]) = a : a \in answers}

(* ------------------------------- states -------------------------------- *)

\* the environment __init__ reads: is APCA_API_KEY_ID set, is APCA_API_SECRET_KEY
Environments == [key : BOOLEAN, secret : BOOLEAN]

\* effective_base_url when APCA_API_BASE_URL is not set
BaseUrl == "https://paper-api.alpaca.markets"

\* the probe self.api.get_account() of __init__ fails
ProbeFailure == [type |-> "Exception", text |-> "503", code |-> "", data |-> <<>>]

ProbeOutcomes == {NoError, ProbeFailure}

\* __init__ probing the remote even when a key is missing
ConstructedProbingWithoutKeys(env, out) ==
    IF out.type = "ok"
    THEN [api |-> env.key /\ env.secret,
          error_message |-> IF env.key /\ env.secret THEN None ELSE NoKeysMessage,
          keys |-> env.key /\ env.secret, probe |-> "ok", calls |-> 1]
    ELSE [api |-> FALSE,
          error_message |-> IF env.key /\ env.secret
                            THEN "Failed to connect to Alpaca API at " \o BaseUrl
                                     \o ": " \o out.text
                            ELSE NoKeysMessage,
          keys |-> env.key /\ env.secret, probe |-> out.type, calls |-> 1]

\* __init__ not storing the reason when the probe fails
ConstructedSilentFailure(env, out) ==
    IF ~env.key \/ ~env.secret
    THEN [api |-> FALSE, error_message |-> NoKeysMessage,
          keys |-> FALSE, probe |-> "none", calls |-> 0]
    ELSE [api |-> out.type = "ok", error_message |-> None,
          keys |-> TRUE, probe |-> out.type, calls |-> 1]

\* __init__, lines 39-65: api and error_message as it leaves them; keys (both
\* keys were set), probe (what the probe did) and calls (remote calls made)
\* describe the construction
Constructed(env, out) ==
    IF ~env.key \/ ~env.secret
    THEN [api |-> FALSE, error_message |-> NoKeysMessage,
          keys |-> FALSE, probe |-> "none", calls |-> 0]
    ELSE IF out.type = "ok"
    THEN [api |-> TRUE, error_message |-> None,
          keys |-> TRUE, probe |-> "ok", calls |-> 1]
    ELSE [api |-> FALSE,
          error_message |-> "Failed to connect to Alpaca API at " \o BaseUrl
                                \o ": " \o out.text,
          keys |-> TRUE, probe |-> out.type, calls |-> 1]

\* the construction record of instance number n
Built(n, c) == [id |-> n, keys |-> c.keys, probe |-> c.probe, calls |-> c.calls]

\* the three ways __init__ (lines 39-65) can leave the gateway
Connections ==
    {<<Constructed(env, out).api, Constructed(env, out).error_message>> :
        env \in Environments, out \in ProbeOutcomes}

\* TradeApp before it is mounted: no handler runs on the event loop, no key
\* was pressed, none waits, no event was handled; symbols is
\* self.initial_symbols
NoUi == [handler |-> "none", keys |-> <<>>, pressed |-> 0, handled |-> 0,
         mounted |-> FALSE, symbols |-> <<>>]

\* the keys of TradeApp.BINDINGS the model presses: view_account,
\* refresh_quotes, toggle_dark
Keys == {"v", "r", "d"}

\* the handlers that call the gateway
GatewayHandlers == {"view_account", "refresh_quotes"}

Workloads == {S \in SUBSET Ops : Cardinality(S) >= 1 /\ Cardinality(S) <= MaxWorkload}

\* the module has been imported (the eight decorators are fresh) and one
\* AlpacaService has been constructed
Init ==
    /\ now = 0
    /\ num_calls = [o \in Ops |-> [w \in Windows |-> 0]]
    /\ last_reset = [o \in Ops |-> [w \in Windows |-> 0]]
    /\ \E env \in Environments, out \in ProbeOutcomes :
          LET c == Constructed(env, out)
          IN  /\ api = c.api
              /\ error_message = c.error_message
              /\ built = Built(1, c)
    /\ pc = [t \in Threads |-> "idle"]
    /\ cur = [t \in Threads |-> "none"]
    /\ recorded = [t \in Threads |-> {}]
    /\ passed = [o \in Ops |-> [w \in Windows |-> 0]]
    /\ recent = [o \in Ops |-> [i \in 1..PeriodTicks("fast") |-> 0]]
    /\ admitted = [o \in Ops |-> 0]
    /\ last = NoResult
    /\ workload \in Workloads
    /\ via = [o \in Ops |-> {}]
    /\ served = [o \in Ops |-> [w \in Windows |-> 0]]
    /\ ui = NoUi
    /\ args = [t \in Threads |-> NoOrder]

(* ------------------------------- actions ------------------------------- *)

\* a caller invokes operation o: control enters the outer (fast) wrapper
Call(t, o) ==
    /\ pc[t] = "idle"
    /\ o \in workload
    /\ CanCall(o)
    /\ pc' = [pc EXCEPT ![t] = "fast"]
    /\ cur' = [cur EXCEPT ![t] = o]
    /\ recorded' = [recorded EXCEPT ![t] = {}]
    /\ UNCHANGED <<now, limiterVars, connVars, recent, admitted, last, workload,
                   instVars, served>>

\* a wrapper whose window, once full, stays full: it is never reset
LimitNeverResets(t, w) ==
    /\ pc[t] = w
    /\ LET o == cur[t]
           reset == FALSE
           n == (IF reset THEN 0 ELSE num_calls[o][w]) + 1
       IN  /\ num_calls' = [num_calls EXCEPT ![o][w] = n]
           /\ last_reset' = [last_reset EXCEPT ![o][w] = IF reset THEN now ELSE @]
           /\ IF Exceeds(n, w)
              THEN /\ pc' = [pc EXCEPT ![t] = "idle"]
                   /\ last' = [Raised(o, w, recorded[t]) EXCEPT !.order = args[t]]
                   /\ passed' = [passed EXCEPT ![o][w] = IF reset THEN 0 ELSE @]
                   /\ recorded' = [recorded EXCEPT ![t] = {}]
                   /\ UNCHANGED <<recent, admitted>>
              ELSE /\ pc' = [pc EXCEPT ![t] = IF w = "fast" THEN "slow" ELSE "body"]
                   /\ recorded' = [recorded EXCEPT ![t] = @ \cup {w}]
                   /\ passed' = [passed EXCEPT ![o][w] = (IF reset THEN 0 ELSE @) + 1]
                   /\ IF w = "slow"
                      THEN /\ recent' = [recent EXCEPT ![o][1] = @ + 1]
                           /\ admitted' = [admitted EXCEPT ![o] = @ + 1]
                      ELSE UNCHANGED <<recent, admitted>>
                   /\ UNCHANGED last
           /\ via' = IF w # "fast" THEN via
                     ELSE IF Exceeds(n, w) THEN [via EXCEPT ![o] = IF reset THEN {} ELSE @]
                     ELSE [via EXCEPT ![o] = (IF reset THEN {} ELSE @) \cup {built.id}]
           /\ served' = [served EXCEPT ![o][w] = IF reset THEN 0 ELSE @]
    /\ UNCHANGED <<now, connVars, cur, workload, args, built, ui>>

\* a fast wrapper that validates the order before it counts the attempt: an
\* invalid order is answered with its validation message whatever the windows
LimitValidatingFirst(t, w) ==
    /\ pc[t] = w
    /\ LET o == cur[t]
           reset == Elapsed(o, w)
           n == (IF reset THEN 0 ELSE num_calls[o][w]) + 1
           invalid == /\ w = "fast" /\ o = "submit_trade_order"
                      /\ args[t] # NoOrder /\ ValidationError(args[t]) # ""
       IN  IF invalid
           THEN /\ pc' = [pc EXCEPT ![t] = "idle"]
                /\ last' = [Returned(o, ValidationError(args[t]), "", "none", 0)
                                EXCEPT !.recorded = {}, !.order = args[t]]
                /\ recorded' = [recorded EXCEPT ![t] = {}]
                /\ UNCHANGED <<num_calls, last_reset, passed, recent, admitted, via,
                               served>>
           ELSE /\ num_calls' = [num_calls EXCEPT ![o][w] = n]
                /\ last_reset' = [last_reset EXCEPT ![o][w] = IF reset THEN now ELSE @]
                /\ IF Exceeds(n, w)
                   THEN /\ pc' = [pc EXCEPT ![t] = "idle"]
                        /\ last' = [Raised(o, w, recorded[t]) EXCEPT !.order = args[t]]
                        /\ passed' = [passed EXCEPT ![o][w] = IF reset THEN 0 ELSE @]
                        /\ recorded' = [recorded EXCEPT ![t] = {}]
                        /\ UNCHANGED <<recent, admitted>>
                   ELSE /\ pc' = [pc EXCEPT ![t] = IF w = "fast" THEN "slow" ELSE "body"]
                        /\ recorded' = [recorded EXCEPT ![t] = @ \cup {w}]
                        /\ passed' = [passed EXCEPT ![o][w] = (IF reset THEN 0 ELSE @) + 1]
                        /\ IF w = "slow"
                           THEN /\ recent' = [recent EXCEPT ![o][1] = @ + 1]
                                /\ admitted' = [admitted EXCEPT ![o] = @ + 1]
                           ELSE UNCHANGED <<recent, admitted>>
                        /\ UNCHANGED last
                /\ via' = IF w # "fast" THEN via
                          ELSE IF Exceeds(n, w)
                          THEN [via EXCEPT ![o] = IF reset THEN {} ELSE @]
                          ELSE [via EXCEPT ![o] = (IF reset THEN {} ELSE @) \cup {built.id}]
                /\ served' = [served EXCEPT ![o][w] = IF reset THEN 0 ELSE @]
    /\ UNCHANGED <<now, connVars, cur, workload, args, built, ui>>

\* the decorators stacked the other way round: the outer wrapper consults the
\* slow window, the inner one the fast window
LimitSlowFirst(t, w) ==
    /\ pc[t] = w
    /\ LET o == cur[t]
           v == IF w = "fast" THEN "slow" ELSE "fast"
           reset == Elapsed(o, v)
           n == (IF reset THEN 0 ELSE num_calls[o][v]) + 1
       IN  /\ num_calls' = [num_calls EXCEPT ![o][v] = n]
           /\ last_reset' = [last_reset EXCEPT ![o][v] = IF reset THEN now ELSE @]
           /\ IF Exceeds(n, v)
              THEN /\ pc' = [pc EXCEPT ![t] = "idle"]
                   /\ last' = [Raised(o, v, recorded[t]) EXCEPT !.order = args[t]]
                   /\ passed' = [passed EXCEPT ![o][v] = IF reset THEN 0 ELSE @]
                   /\ recorded' = [recorded EXCEPT ![t] = {}]
                   /\ UNCHANGED <<recent, admitted>>
              ELSE /\ pc' = [pc EXCEPT ![t] = IF w = "fast" THEN "slow" ELSE "body"]
                   /\ recorded' = [recorded EXCEPT ![t] = @ \cup {v}]
                   /\ passed' = [passed EXCEPT ![o][v] = (IF reset THEN 0 ELSE @) + 1]
                   /\ IF w = "slow"
                      THEN /\ recent' = [recent EXCEPT ![o][1] = @ + 1]
                           /\ admitted' = [admitted EXCEPT ![o] = @ + 1]
                      ELSE UNCHANGED <<recent, admitted>>
                   /\ UNCHANGED last
           /\ via' = IF v # "fast" THEN via
                     ELSE IF Exceeds(n, v) THEN [via EXCEPT ![o] = IF reset THEN {} ELSE @]
                     ELSE [via EXCEPT ![o] = (IF reset THEN {} ELSE @) \cup {built.id}]
           /\ served' = [served EXCEPT ![o][v] = IF reset THEN 0 ELSE @]
    /\ UNCHANGED <<now, connVars, cur, workload, args, built, ui>>

\* the wrapper of window w, run under that decorator's lock: reset if the
\* period has elapsed, count the attempt, raise if over the limit, otherwise
\* release the lock and call what it wraps
Limit(t, w) ==
    /\ pc[t] = w
    /\ LET o == cur[t]
           reset == Elapsed(o, w)
           n == (IF reset THEN 0 ELSE num_calls[o][w]) + 1
       IN  /\ num_calls' = [num_calls EXCEPT ![o][w] = n]
           /\ last_reset' = [last_reset EXCEPT ![o][w] = IF reset THEN now ELSE @]
           /\ IF Exceeds(n, w)
              THEN /\ pc' = [pc EXCEPT ![t] = "idle"]
                   /\ last' = [Raised(o, w, recorded[t]) EXCEPT !.order = args[t]]
                   /\ passed' = [passed EXCEPT ![o][w] = IF reset THEN 0 ELSE @]
                   /\ recorded' = [recorded EXCEPT ![t] = {}]
                   /\ UNCHANGED <<recent, admitted>>
              ELSE /\ pc' = [pc EXCEPT ![t] = IF w = "fast" THEN "slow" ELSE "body"]
                   /\ recorded' = [recorded EXCEPT ![t] = @ \cup {w}]
                   /\ passed' = [passed EXCEPT ![o][w] = (IF reset THEN 0 ELSE @) + 1]
                   /\ IF w = "slow"
                      THEN /\ recent' = [recent EXCEPT ![o][1] = @ + 1]
                           /\ admitted' = [admitted EXCEPT ![o] = @ + 1]
                      ELSE UNCHANGED <<recent, admitted>>
                   /\ UNCHANGED last
           /\ via' = IF w # "fast" THEN via
                     ELSE IF Exceeds(n, w) THEN [via EXCEPT ![o] = IF reset THEN {} ELSE @]
                     ELSE [via EXCEPT ![o] = (IF reset THEN {} ELSE @) \cup {built.id}]
           /\ served' = [served EXCEPT ![o][w] = IF reset THEN 0 ELSE @]
    /\ UNCHANGED <<now, connVars, cur, workload, args, built, ui>>

\* @limits(calls=CALLS_PER_SECOND, period=PERIOD_PER_SECOND), the outer decorator
FastLimit(t) == Limit(t, "fast")

\* @limits(calls=CALLS_PER_MINUTE, period=PERIOD_PER_MINUTE), the inner decorator
SlowLimit(t) == Limit(t, "slow")

\* a body that, finding the gateway not ready, probes the remote again and
\* connects
ReturnReconnecting(t, r) ==
    /\ pc' = [pc EXCEPT ![t] = "idle"]
    /\ last' = [r EXCEPT !.recorded = recorded[t], !.instance = built.id]
    /\ recorded' = [recorded EXCEPT ![t] = {}]
    /\ served' = [served EXCEPT ![r.op] = [w \in Windows |-> @[w] + 1]]
    /\ api' = TRUE
    /\ error_message' = None
    /\ UNCHANGED <<now, limiterVars, cur, recent, admitted, workload, args, instVars, ui>>

\* the body returns r to the caller; no body assigns self.api or
\* self.error_message
Return(t, r) ==
    /\ pc' = [pc EXCEPT ![t] = "idle"]
    /\ last' = [r EXCEPT !.recorded = recorded[t], !.instance = built.id]
    /\ recorded' = [recorded EXCEPT ![t] = {}]
    /\ served' = [served EXCEPT ![r.op] = [w \in Windows |-> @[w] + 1]]
    /\ UNCHANGED <<now, limiterVars, connVars, cur, recent, admitted, workload, args,
                   instVars, ui>>

GetAccountInfo(t) ==
    /\ pc[t] = "body" /\ cur[t] = "get_account_info"
    /\ \E out \in RemoteOutcomes :
          Return(t, Seen(GetAccountInfoBody(out), out, NoOrder, <<>>, {}))

\* the symbol lists callers ask quotes for
QuoteRequests == {<<>>, <<"AAPL", "MSFT">>}

GetQuotes(t) ==
    /\ pc[t] = "body" /\ cur[t] = "get_quotes"
    /\ \E symbols \in QuoteRequests, out \in QuoteOutcomes :
          Return(t, Seen(GetQuotesBody(symbols, out), out, NoOrder, symbols,
                         DOMAIN out.data))

ListPositions(t) ==
    /\ pc[t] = "body" /\ cur[t] = "list_positions"
    /\ \E out \in PositionOutcomes :
          Return(t, Seen(ListPositionsBody(out), out, NoOrder, <<>>,
                         PositionSymbols(out.data)))

\* submit_trade_order called with one of the (order, remote outcome) pairs of cases
SubmitWith(t, cases) ==
    /\ pc[t] = "body" /\ cur[t] = "submit_trade_order"
    /\ \E c \in cases :
          /\ args[t] \in {NoOrder, c[1]}
          /\ Return(t, Submitted(Seen(SubmitTradeOrderBody(c[1], c[2]), c[2], c[1],
                                       <<>>, {}), c[1]))

SubmitTradeOrder(t) == SubmitWith(t, OrderCases)

\* submit_trade_order called with any order of Orders
SubmitAnyOrder(t) == SubmitWith(t, Orders \X RemoteOutcomes)

\* a construction whose probe goes through the limiter of get_account_info
ConstructThroughLimiter(env, out) ==
    /\ built.id < MaxInstances
    /\ \A t \in Threads : pc[t] = "idle"
    /\ LET c == Constructed(env, out)
       IN  /\ api' = c.api
           /\ error_message' = c.error_message
           /\ built' = Built(built.id + 1, c)
           /\ num_calls' = [num_calls EXCEPT !["get_account_info"] =
                                [w \in Windows |-> @[w] + c.calls]]
    /\ UNCHANGED <<now, last_reset, passed, pc, cur, recorded, recent, admitted, last,
                   workload, args, via, served, ui>>

\* a construction that gives the new instance rate-limit windows of its own
ConstructWithOwnWindows(env, out) ==
    /\ built.id < MaxInstances
    /\ \A t \in Threads : pc[t] = "idle"
    /\ LET c == Constructed(env, out)
       IN  /\ api' = c.api
           /\ error_message' = c.error_message
           /\ built' = Built(built.id + 1, c)
    /\ num_calls' = [o \in Ops |-> [w \in Windows |-> 0]]
    /\ last_reset' = [o \in Ops |-> [w \in Windows |-> now]]
    /\ UNCHANGED <<now, passed, pc, cur, recorded, recent, admitted, last,
                   workload, args, via, served, ui>>

\* AlpacaService() is constructed once more in the same process, between two
\* calls; the callers go on with the new instance.  __init__ (lines 39-65)
\* touches self.api and self.error_message only: the decorators' counters
\* belong to the class and the probe self.api.get_account() is not decorated.
Construct(env, out) ==
    /\ built.id < MaxInstances
    /\ \A t \in Threads : pc[t] = "idle"
    /\ LET c == Constructed(env, out)
       IN  /\ api' = c.api
           /\ error_message' = c.error_message
           /\ built' = Built(built.id + 1, c)
    /\ UNCHANGED <<now, limiterVars, pc, cur, recorded, recent, admitted, last,
                   workload, args, via, served, ui>>

\* the UI thread of TradeApp, caller 1, invokes gateway operation o from the
\* handler h: the call is made on the event loop, which runs nothing else
\* until the handler returns
UiCall(h, o) ==
    /\ pc[1] = "idle"
    /\ pc' = [pc EXCEPT ![1] = "fast"]
    /\ cur' = [cur EXCEPT ![1] = o]
    /\ recorded' = [recorded EXCEPT ![1] = {}]
    /\ UNCHANGED <<now, limiterVars, connVars, recent, admitted, last, workload, args,
                   instVars, served>>

\* on_mount, lines 299-321: with a gateway that is not ready nothing is
\* fetched; otherwise the quotes are refreshed if there are symbols and the
\* account is shown if there are none
Mount(symbols) ==
    /\ ~ui.mounted
    /\ IF error_message # None
       THEN /\ ui' = [ui EXCEPT !.mounted = TRUE, !.symbols = symbols]
            /\ UNCHANGED <<now, limiterVars, connVars, pc, cur, recorded, recent,
                           admitted, last, workload, args, instVars, served>>
       ELSE IF symbols # <<>>
       THEN /\ ui' = [ui EXCEPT !.mounted = TRUE, !.symbols = symbols,
                                !.handler = "refresh_quotes"]
            /\ UiCall("refresh_quotes", "get_quotes")
       ELSE /\ ui' = [ui EXCEPT !.mounted = TRUE, !.symbols = symbols,
                                !.handler = "view_account"]
            /\ UiCall("view_account", "get_account_info")

\* the user presses a key; the terminal driver queues it for the event loop
KeyPress(k) ==
    /\ ui.mounted
    /\ ui.pressed < MaxPresses
    /\ ui' = [ui EXCEPT !.keys = Append(@, k), !.pressed = @ + 1]
    /\ UNCHANGED <<now, limiterVars, connVars, pc, cur, recorded, recent, admitted,
                   last, workload, args, instVars, served>>

\* the event loop, running no handler, takes the next key press and runs the
\* action bound to it.  action_toggle_dark (324-329) returns at once;
\* action_view_account (379-403) calls get_account_info at line 385;
\* action_refresh_quotes (331-376) returns at line 345 if there are no symbols
\* and calls get_quotes at line 347 otherwise
Dispatch ==
    /\ ui.mounted
    /\ ui.handler = "none"
    /\ ui.keys # <<>>
    /\ LET k == Head(ui.keys)
           taken == [ui EXCEPT !.keys = Tail(@)]
       IN  IF k = "v"
           THEN /\ ui' = [taken EXCEPT !.handler = "view_account"]
                /\ UiCall("view_account", "get_account_info")
           ELSE IF k = "r" /\ ui.symbols # <<>>
           THEN /\ ui' = [taken EXCEPT !.handler = "refresh_quotes"]
                /\ UiCall("refresh_quotes", "get_quotes")
           ELSE /\ ui' = [taken EXCEPT !.handled = @ + 1]
                /\ UNCHANGED <<now, limiterVars, connVars, pc, cur, recorded, recent,
                               admitted, last, workload, args, instVars, served>>

\* the body of get_quotes run for action_refresh_quotes, line 347
RefreshQuotes ==
    /\ pc[1] = "body" /\ cur[1] = "get_quotes"
    /\ \E out \in QuoteOutcomes :
          Return(1, Seen(GetQuotesBody(ui.symbols, out), out, NoOrder, ui.symbols,
                         DOMAIN out.data))

\* the gateway call has come back (or the limiter's exception has left the
\* handler): the handler ends and the event loop is free again
Finish ==
    /\ ui.handler \in GatewayHandlers
    /\ pc[1] = "idle"
    /\ ui' = [ui EXCEPT !.handler = "none", !.handled = @ + 1]
    /\ UNCHANGED <<now, limiterVars, connVars, pc, cur, recorded, recent, admitted,
                   last, workload, args, instVars, served>>

\* the clock moves on by d ticks, up to the horizon h
Advance(d, h) ==
    /\ now + d <= h
    /\ now' = now + d
    /\ recent' = [o \in Ops |-> Shift(recent[o], d)]
    /\ last' = Aged(last, d)
    /\ UNCHANGED <<limiterVars, connVars, pc, cur, recorded, admitted, workload, args,
                   instVars, served, ui>>

(* ---------------------------- specifications --------------------------- *)

\* a run whose callers all use the same operation
InitSolo == Init /\ Cardinality(workload) = 1

\* a call is started while fewer than MaxCalls have reached the inner decorators
Invoke(t) == \E o \in Ops : CallsCharged < MaxCalls /\ Call(t, o) /\ UNCHANGED <<ui, args>>

\* the clock moves on by any number of ticks up to one second
Tick == \E d \in 1..TicksPerSecond : Advance(d, MaxTime)

\* Spec: one caller, one operation, the clock running over a short horizon
Next ==
    \/ Invoke(1)
    \/ FastLimit(1)
    \/ SlowLimit(1)
    \/ GetAccountInfo(1)
    \/ GetQuotes(1)
    \/ ListPositions(1)
    \/ SubmitTradeOrder(1)
    \/ Tick

Spec == InitSolo /\ [][Next]_vars

\* SpecMix: one caller mixing several operations within one instant
NextMix ==
    \/ Invoke(1)
    \/ FastLimit(1)
    \/ SlowLimit(1)
    \/ GetAccountInfo(1)
    \/ GetQuotes(1)
    \/ ListPositions(1)
    \/ SubmitTradeOrder(1)

SpecMix == Init /\ [][NextMix]_vars

\* SpecConc: concurrent callers of one operation on a connected gateway, the
\* operation being one whose body always calls the remote; the clock moves in
\* whole seconds
InitConc == InitSolo /\ api /\ workload \subseteq {"get_account_info", "list_positions"}

TickSecond == Advance(TicksPerSecond, MaxTime)

\* idle callers are interchangeable: the next call is started by the idle
\* caller with the smallest number
InvokeConc(t) == (\A u \in 1..(t - 1) : pc[u] # "idle") /\ Invoke(t)

NextConc ==
    \/ \E t \in Threads : InvokeConc(t)
    \/ \E t \in Threads : FastLimit(t)
    \/ \E t \in Threads : SlowLimit(t)
    \/ \E t \in Threads : GetAccountInfo(t)
    \/ \E t \in Threads : ListPositions(t)
    \/ TickSecond

SpecConc == InitConc /\ [][NextConc]_vars

\* SpecSlow: one caller of get_account_info on a connected gateway, long
\* enough for the slow window to fill; the clock moves in whole seconds
InitSlow == Init /\ api /\ workload = {"get_account_info"}

InvokeSlow == Call(1, "get_account_info") /\ UNCHANGED <<ui, args>>

TickSlow == Advance(TicksPerSecond, MaxSecondsSlow * TicksPerSecond)

NextSlow ==
    \/ InvokeSlow
    \/ FastLimit(1)
    \/ SlowLimit(1)
    \/ GetAccountInfo(1)
    \/ TickSlow

SpecSlow == InitSlow /\ [][NextSlow]_vars

\* SpecOrders: one caller submitting any of the orders of Orders, a few times
InitOrders == Init /\ workload = {"submit_trade_order"}

InvokeOrders ==
    CallsCharged < MaxOrderCalls /\ Call(1, "submit_trade_order") /\ UNCHANGED <<ui, args>>

NextOrders ==
    \/ InvokeOrders
    \/ FastLimit(1)
    \/ SlowLimit(1)
    \/ SubmitAnyOrder(1)

SpecOrders == InitOrders /\ [][NextOrders]_vars

\* SpecInst: one caller of one operation, within one instant; the gateway it
\* uses is constructed anew between calls
NewInstance == \E env \in Environments, out \in ProbeOutcomes : Construct(env, out)

NextInst ==
    \/ Invoke(1)
    \/ FastLimit(1)
    \/ SlowLimit(1)
    \/ GetAccountInfo(1)
    \/ GetQuotes(1)
    \/ ListPositions(1)
    \/ SubmitTradeOrder(1)
    \/ NewInstance

SpecInst == InitSolo /\ [][NextInst]_vars

\* SpecBoth: one caller of get_account_info on a connected gateway, in a hurry:
\* it lets a second pass only once it has used all but MaxIdleSlots of the
\* second's slots, long enough for the slow window to fill
TickBusy ==
    /\ pc[1] = "idle"
    /\ num_calls["get_account_info"]["fast"] >= CALLS_PER_SECOND - MaxIdleSlots
    /\ TickSlow

NextBoth ==
    \/ InvokeSlow
    \/ FastLimit(1)
    \/ SlowLimit(1)
    \/ GetAccountInfo(1)
    \/ TickBusy

SpecBoth == InitSlow /\ [][NextBoth]_vars

\* SpecUI: the terminal UI: TradeApp is mounted, keys are pressed, the event
\* loop runs the actions bound to them within one instant
InitUI == Init /\ workload = {"get_account_info", "get_quotes"}

NextUI ==
    \/ \E symbols \in QuoteRequests : Mount(symbols)
    \/ \E k \in Keys : KeyPress(k)
    \/ Dispatch
    \/ FastLimit(1)
    \/ SlowLimit(1)
    \/ GetAccountInfo(1)
    \/ RefreshQuotes
    \/ Finish

SpecUI == InitUI /\ [][NextUI]_vars

\* SpecStages: one caller submitting orders within one instant, often enough
\* to exhaust the fast window; the order of each call is fixed when the call
\* is made, before the wrappers run
StageOrders == {c[1] : c \in OrderCases}

InvokeStages ==
    \E r \in StageOrders :
        /\ CallsCharged < MaxCalls
        /\ Call(1, "submit_trade_order")
        /\ args' = [args EXCEPT ![1] = r]
        /\ UNCHANGED ui

NextStages ==
    \/ InvokeStages
    \/ FastLimit(1)
    \/ SlowLimit(1)
    \/ SubmitAnyOrder(1)

SpecStages == InitOrders /\ [][NextStages]_vars

(* ------------------------------ properties ----------------------------- *)

\* calls of operation o let through by both windows in the trailing second
AdmittedLastSecond(o) == SumSeq(recent[o])

\* the rate-limit error records the `except RateLimitException` clauses build
RateLimitMessages ==
    {"Rate limit exceeded for " \o o \o ": too many calls. Please try again shortly." :
        o \in Ops}

\* the call that completed last was refused by window w
RefusedBy(w) == last.op # "none" /\ last.by = w

\* the call that completed last was handed back as a rate-limit error record
\* and made no remote call
RateLimitRecord ==
    last.how = "returned" /\ last.error \in RateLimitMessages /\ last.remote = 0

\* C1: the fast and the slow window are single counters shared by the four
\* operations: over all operations together, never more than 10 calls are
\* admitted within one second, nor more than 200 within sixty seconds.
C1_SharedWindows ==
    /\ SumOver([o \in Ops |-> AdmittedLastSecond(o)], Ops) <= CALLS_PER_SECOND
    /\ now < PeriodTicks("slow") => SumOver(admitted, Ops) <= CALLS_PER_MINUTE

\* C2: a call that finds 10 calls to its operation already admitted in the
\* current second is refused with a returned 'Rate limit exceeded ...' error
\* record and makes no remote call.
C2_EleventhCallGetsErrorRecord ==
    \A o \in Ops :
        (last.op = o /\ RefusedBy("fast") /\ passed[o]["fast"] = CALLS_PER_SECOND)
            => RateLimitRecord

\* C3: once 200 calls were admitted within sixty seconds, the next call in
\* those sixty seconds is refused with a returned slow-window error record
\* and makes no remote call.
C3_Call201GetsErrorRecord ==
    \A o \in Ops :
        (last.op = o /\ RefusedBy("slow") /\ now < PeriodTicks("slow")
            /\ admitted[o] = CALLS_PER_MINUTE)
            => RateLimitRecord

\* C4: sliding-window invariant: at every instant the calls admitted in the
\* trailing second number at most 10 and those admitted in the trailing
\* sixty seconds at most 200.
C4_SlidingWindow ==
    \A o \in Ops :
        /\ AdmittedLastSecond(o) <= CALLS_PER_SECOND
        /\ now < PeriodTicks("slow") => admitted[o] <= CALLS_PER_MINUTE

\* C5: a call the limiter refuses, by either window, has taken a slot in
\* neither window.
C5_RefusedCallNotCharged ==
    (last.op # "none" /\ last.how = "raised") => last.recorded = {}

\* C6: under every interleaving of concurrent callers, the calls a window
\* has let through since its last reset never exceed its capacity: with one
\* free slot left, at most one of the racing calls gets it.
C6_WindowNeverOverfilled ==
    \A o \in Ops, w \in Windows : passed[o][w] <= Capacity(w)

\* C6 witness: the fast window of an operation is full, the caller that took
\* its last slot is still in flight, and a racing caller has just been refused.
C6_Witness ==
    \E o \in Ops, t \in Threads :
        /\ passed[o]["fast"] = CALLS_PER_SECOND
        /\ cur[t] = o /\ pc[t] \in {"slow", "body"}
        /\ last.op = o /\ last.by = "fast"

\* C7: admission is atomic over the pair of windows: no state, intermediate
\* ones included, shows a call recorded in the fast window and not in the
\* slow window.
C7_PairAtomic ==
    /\ \A t \in Threads : "fast" \in recorded[t] => "slow" \in recorded[t]
    /\ last.recorded \in {{}, Windows}

\* C8: no failure crosses the gateway boundary as an exception: every call
\* that completes hands back a record.
C8_NeverThrows == last.op # "none" => last.how = "returned"

\* C9: on a gateway that construction left not ready, every call hands back
\* an error record carrying exactly the stored failure reason and makes no
\* remote call.
C9_NotReadyAlwaysStoredReason ==
    (~api /\ last.op # "none")
        => (last.how = "returned" /\ last.error = error_message /\ last.remote = 0)

\* C10: the readiness check precedes the limiter: calls on a not-ready
\* gateway take no slot in either window.
C10_NotReadyTakesNoSlot ==
    ~api => /\ \A t \in Threads : recorded[t] = {}
            /\ \A o \in Ops, w \in Windows : num_calls[o][w] = 0

\* the rules of the order validation, in the order the specification lists them
RuleHolds(i, r) ==
    CASE i = 1 -> r.symbol # ""
      [] i = 2 -> r.qty > 0
      [] i = 3 -> r.side \in {"buy", "sell"}
      [] i = 4 -> r.order_type \in {"market", "limit", "stop", "stop_limit", "trailing_stop"}
      [] i = 5 -> r.time_in_force \in {"day", "gtc", "opg", "cls", "ioc", "fok"}
      [] i = 6 -> r.order_type \in {"limit", "stop_limit"} => r.limit_price # None
      [] i = 7 -> r.order_type \in {"stop", "stop_limit"} => r.stop_price # None

\* the message of each rule
RuleMessage ==
    << "Invalid symbol.",
       "Invalid quantity.",
       "Invalid side. Must be 'buy' or 'sell'.",
       "Invalid order type.",
       "Invalid time in force.",
       "Limit price is required for limit and stop_limit orders.",
       "Stop price is required for stop and stop_limit orders." >>

Rules == DOMAIN RuleMessage

ValidationMessages == {RuleMessage[i] : i \in Rules}

\* the first rule order r breaks, 0 if it breaks none
FirstFailing(r) ==
    IF \A i \in Rules : RuleHolds(i, r) THEN 0
    ELSE CHOOSE i \in Rules : ~RuleHolds(i, r) /\ \A j \in 1..(i - 1) : RuleHolds(j, r)

\* the call that completed last is a submit_trade_order that reached the body
SubmitReturned == last.op = "submit_trade_order" /\ last.how = "returned"

\* the call that completed last is a get_quotes that reached the body
QuotesReturned == last.op = "get_quotes" /\ last.how = "returned"

\* C11: the connection state (api, error_message) is fixed at construction:
\* no step of any operation, succeeding or failing, changes it, and a call on
\* a not-ready gateway makes no remote call (the probe is not retried).
C11_ConnectionStateFixed ==
    [][/\ api' = api
       /\ error_message' = error_message
       /\ ~api => last'.remote = 0]_vars

\* C11 witness: a gateway whose probe failed has answered several calls with
\* the stored reason and is still not ready.
C11_Witness ==
    /\ ~api /\ error_message = ConnectFailMessage
    /\ last.how = "returned" /\ last.error = ConnectFailMessage
    /\ admitted[last.op] >= 2

\* C12: submit_trade_order makes no remote call for an order that breaks a
\* validation rule, nor for a call the limiter rejects; a limit or stop_limit
\* order without a limit price gets a validation error and no remote call.
C12_NoRemoteCallForRejectedOrder ==
    last.op = "submit_trade_order" =>
        /\ last.how = "raised" => last.remote = 0
        /\ (last.how = "returned" /\ FirstFailing(last.order) # 0) => last.remote = 0
        /\ (/\ api /\ last.how = "returned"
            /\ last.order.order_type \in {"limit", "stop_limit"}
            /\ last.order.limit_price = None)
               => (last.error \in ValidationMessages /\ last.remote = 0)

\* C12 witness: a limit order without a limit price was answered with the
\* limit-price message and no remote call.
C12_Witness ==
    /\ api /\ SubmitReturned
    /\ last.order.order_type \in {"limit", "stop_limit"}
    /\ last.order.limit_price = None
    /\ last.error = RuleMessage[6]
    /\ last.remote = 0

\* C13: the validation answers every order with the message of the first
\* rule it breaks, in the order symbol, quantity, side, order type, time in
\* force, limit price, stop price; the seven messages are pairwise distinct;
\* an order that breaks no rule gets no validation message.
C13_FirstFailingRuleWins ==
    /\ \A i, j \in Rules : i # j => RuleMessage[i] # RuleMessage[j]
    /\ (api /\ SubmitReturned) =>
          LET k == FirstFailing(last.order)
          IN  IF k = 0 THEN last.error \notin ValidationMessages
              ELSE last.error = RuleMessage[k]

\* C13 witness: an order with a bad quantity and a bad side was answered with
\* the quantity message.
C13_Witness ==
    /\ api /\ SubmitReturned
    /\ RuleHolds(1, last.order) /\ ~RuleHolds(2, last.order) /\ ~RuleHolds(3, last.order)
    /\ last.error = RuleMessage[2]

C15_EmptyQuotesTakesNoSlot ==
    (api /\ QuotesReturned /\ last.requested = <<>>) => last.recorded = {}

\* C16: the symbols of a successful get_quotes result are exactly the symbols
\* of the remote's answer: a requested symbol the remote leaves out is absent
\* and the result is no error.
C16_ResultSymbolsAreResponseSymbols ==
    (QuotesReturned /\ last.cause = "ok") =>
        (last.error = "" /\ last.symbols = last.response)

\* C16 witness: two symbols were asked for, the remote answered for one, and
\* the result holds that one.
C16_Witness ==
    /\ QuotesReturned /\ last.cause = "ok"
    /\ last.requested = <<"AAPL", "MSFT">>
    /\ last.response = {"AAPL"}
    /\ last.symbols = {"AAPL"} /\ last.error = ""

\* C17: a structured broker error (code c, message m) on submit_trade_order
\* is returned as 'Alpaca API error: m (Code: c)' with raw_error holding the
\* error's text, never as the generic 'Failed to submit order' message.
C17_DomainErrorMessage ==
    (last.op = "submit_trade_order" /\ last.cause = "APIError") =>
        /\ last.how = "returned"
        /\ last.error = "Alpaca API error: " \o ApiError.text
                            \o " (Code: " \o ApiError.code \o ")"
        /\ last.raw_error = ApiError.text
        /\ last.error # "Failed to submit order: " \o ApiError.text

\* C17 witness: the remote has rejected an order with a structured error.
C17_Witness ==
    /\ SubmitReturned /\ last.cause = "APIError" /\ last.remote = 1
    /\ last.error = "Alpaca API error: forbidden (Code: 403)"

\* the generic failure message of each operation
GenericPrefix(o) ==
    CASE o = "get_account_info" -> "Failed to fetch account info: "
      [] o = "get_quotes" -> "Failed to fetch quotes: "
      [] o = "list_positions" -> "Failed to fetch positions: "
      [] o = "submit_trade_order" -> "Failed to submit order: "

\* C18: in each of the four operations the three failure causes give three
\* different messages: 'Rate limit exceeded for <operation>' for a rejection
\* by the limiter, 'Alpaca API error: <message> (Code: <code>)' for a
\* structured broker error, the operation's generic 'Failed to ...' message
\* for any other failure.
C18_CausesDistinguishable ==
    last.op # "none" =>
        /\ last.by # "none" =>
              /\ last.how = "returned"
              /\ last.error = "Rate limit exceeded for " \o last.op
                                  \o ": too many calls. Please try again shortly."
        /\ last.cause = "APIError" =>
              last.error = "Alpaca API error: " \o ApiError.text
                               \o " (Code: " \o ApiError.code \o ")"
        /\ last.cause = "Exception" =>
              last.error = GenericPrefix(last.op) \o OtherError.text

\* what the caller of operation o gets as text when window w rejects the call
RefusalText(o, w) == Raised(o, w, {}).error

\* C19: the error of a rate-limit rejection names the operation rejected and
\* the window that is exhausted: no other operation or window gives that text.
C19_RefusalNamesOperationAndWindow ==
    \A w \in Windows :
        RefusedBy(w) =>
            \A o2 \in Ops, w2 \in Windows :
                <<o2, w2>> # <<last.op, w>> => last.error # RefusalText(o2, w2)

\* C20: one invocation makes at most one remote call, whatever the remote
\* answers; list_positions on a ready gateway makes exactly one, however many
\* positions come back.
C20_AtMostOneRemoteCall ==
    /\ last.remote <= 1
    /\ (api /\ last.op = "list_positions" /\ last.how = "returned") => last.remote = 1

\* C20 witness: list_positions has returned two positions after one remote call.
C20_Witness ==
    /\ last.op = "list_positions" /\ last.how = "returned"
    /\ Cardinality(last.symbols) = 2
    /\ last.remote = 1

\* C21: rejection is not permanent: a call that completes when at least one
\* second has gone by since the fast window rejected the previous call to the
\* operation, the slow window having room, is not rejected: its body runs
\* and, on a ready gateway, get_account_info and list_positions reach the
\* remote.
C21_RejectionNotPermanent ==
    [][(/\ pc[1] # "idle" /\ pc'[1] = "idle"
        /\ last.by = "fast" /\ last.op = cur[1]
        /\ last.age >= PeriodTicks("fast")
        /\ admitted[cur[1]] < CALLS_PER_MINUTE)
          => /\ last'.how = "returned"
             /\ (api /\ cur[1] \in {"get_account_info", "list_positions"})
                    => last'.remote = 1]_vars

\* C21 witness: one second after the fast window rejected a call, the next
\* call to the operation has passed both windows and is about to run its body.
C21_Witness ==
    /\ api /\ pc[1] = "body"
    /\ last.by = "fast" /\ last.op = cur[1]
    /\ last.age >= PeriodTicks("fast")

\* C22: construction makes exactly one remote account fetch when both keys
\* are set and none when a key is missing; a missing key leaves the gateway
\* not ready with 'API keys not found ...' stored, a failing probe not ready
\* with 'Failed to connect to Alpaca API at <url>: <error>' stored, and a
\* successful probe ready with no reason stored.
C22_ConstructionProbesOnce ==
    /\ built.keys => built.calls = 1
    /\ ~built.keys => (built.calls = 0 /\ ~api /\ error_message = NoKeysMessage)
    /\ (built.keys /\ built.probe # "ok") => (~api /\ error_message = ConnectFailMessage)
    /\ (built.keys /\ built.probe = "ok") => (api /\ error_message = None)

\* C22 witness: a second gateway was constructed with both keys set and its
\* probe failed.
C22_Witness ==
    /\ built.id = 2 /\ built.keys /\ built.probe = "Exception"
    /\ built.calls = 1 /\ ~api /\ error_message = ConnectFailMessage

\* the upper-case symbols
UpperCase == {"", "AAPL", "MSFT"}

\* C23: whenever submit_trade_order calls the remote, the symbol it sends is
\* the upper-case spelling of the symbol it was given; limit_price, stop_price
\* and client_order_id are sent only if they were supplied, and then as
\* supplied (a price is sent whenever it was supplied, a client_order_id
\* whenever it was supplied and not empty); on success the record returned
\* carries the id, symbol, quantity, side, type, time in force and status of
\* the order the remote answered with.
C23_OrderSentAndReturned ==
    (last.op = "submit_trade_order" /\ last.remote >= 1) =>
        /\ last.sent.symbol \in UpperCase
        /\ last.sent.symbol \in DOMAIN Spellings
        /\ last.order.symbol \in Spellings[last.sent.symbol]
        /\ last.sent.qty = last.order.qty
        /\ last.sent.side = last.order.side
        /\ last.sent.type = last.order.order_type
        /\ last.sent.time_in_force = last.order.time_in_force
        /\ \A k \in {"limit_price", "stop_price", "client_order_id"} :
              last.sent[k] # Absent =>
                  (last.order[k] # None /\ last.sent[k] = last.order[k])
        /\ \A k \in {"limit_price", "stop_price"} :
              last.order[k] # None => last.sent[k] # Absent
        /\ last.order.client_order_id \notin {None, ""} =>
              last.sent.client_order_id # Absent
        /\ last.value = "order" =>
              /\ last.how = "returned" /\ last.error = ""
              /\ last.placed # NoRemoteOrder
              /\ last.ack.id = last.placed.id
              /\ last.ack.symbol = last.placed.symbol
              /\ QtyText(last.ack.qty) = last.placed.qty
              /\ last.ack.side = last.placed.side
              /\ last.ack.type = last.placed.type
              /\ last.ack.time_in_force = last.placed.time_in_force
              /\ last.ack.status = last.placed.status

\* C23 witness: an order for 'Aapl' with a client_order_id and no prices was
\* accepted: 'AAPL' and the client_order_id were sent, no price was.
C23_Witness ==
    /\ last.op = "submit_trade_order" /\ last.value = "order"
    /\ last.order.symbol = "Aapl" /\ last.sent.symbol = "AAPL"
    /\ last.order.client_order_id = "c1" /\ last.sent.client_order_id = "c1"
    /\ last.order.limit_price = None /\ last.sent.limit_price = Absent
    /\ last.sent.stop_price = Absent
    /\ last.ack.symbol = "AAPL" /\ last.ack.status = "accepted"

\* C24: within one submit_trade_order call the stages run in the order rate
\* check, validation, remote call, normalization, and a failing stage ends the
\* call: a call the limiter refuses ends with the limiter's error and nothing
\* else, whatever the order (an invalid order submitted while a window is
\* exhausted gets the limiter's error, not the validation message); a call
\* answered by the body, a validation message included, was let through by
\* both windows; a remote call is made only for an order that passed both the
\* rate check and the validation; an order record is returned only after the
\* remote call.
C24_StagesInOrder ==
    /\ last.op = "submit_trade_order" =>
          /\ last.how = "raised" =>
                /\ last.error = "too many calls" /\ last.error \notin ValidationMessages
                /\ last.remote = 0 /\ last.value = "none"
                /\ last.recorded # Windows
          /\ last.how = "returned" => last.recorded = Windows
          /\ last.error \in ValidationMessages =>
                /\ last.remote = 0 /\ last.value = "none"
                /\ ValidationError(last.order) = last.error
          /\ last.remote >= 1 =>
                /\ last.how = "returned"
                /\ ValidationError(last.order) = ""
          /\ last.value = "order" => last.remote = 1 /\ last.error = ""
    /\ \A t \in Threads :
          (cur[t] = "submit_trade_order" /\ pc[t] = "body") => recorded[t] = Windows

\* C24 witness: an invalid order was submitted when the fast window had
\* already let 10 calls through, and the call was refused by the limiter.
C24_Witness ==
    /\ last.op = "submit_trade_order" /\ last.how = "raised" /\ last.by = "fast"
    /\ last.order \in Orders /\ ValidationError(last.order) # ""
    /\ passed["submit_trade_order"]["fast"] = CALLS_PER_SECOND

\* C25: the limiter consults the fast window before the slow one on every
\* call.  A call that leaves the fast wrapper refused was refused by the fast
\* window and has not touched the slow window's count or reset time; a call
\* that finds the fast window exhausted is refused there, whatever the slow
\* window holds; the slow wrapper is entered only from the fast wrapper, by a
\* call the fast window let through; the body is entered only from the slow
\* wrapper, by a call both windows let through; a window lets a call through
\* only if, that call counted, it holds no more than its capacity.
C25_FastBeforeSlow ==
    [][\A t \in Threads :
          /\ (pc[t] = "fast" /\ pc'[t] = "idle") =>
                /\ last'.by = "fast" /\ last'.how = "raised"
                /\ num_calls'[cur[t]]["slow"] = num_calls[cur[t]]["slow"]
                /\ last_reset'[cur[t]]["slow"] = last_reset[cur[t]]["slow"]
          /\ (/\ pc[t] = "fast" /\ pc'[t] # "fast"
              /\ ~Elapsed(cur[t], "fast")
              /\ num_calls[cur[t]]["fast"] >= Capacity("fast")) =>
                pc'[t] = "idle" /\ last'.by = "fast"
          /\ (pc[t] # "slow" /\ pc'[t] = "slow") =>
                pc[t] = "fast" /\ recorded'[t] = {"fast"}
          /\ (pc[t] # "body" /\ pc'[t] = "body") =>
                pc[t] = "slow" /\ recorded'[t] = Windows
          /\ \A w \in Windows :
                (pc[t] = w /\ w \in recorded'[t]) =>
                    num_calls'[cur[t]][w] <= Capacity(w)
      ]_vars

\* C25 witness: both windows of an operation are exhausted - the fast window
\* let 10 calls through this second, the slow window 200 this minute - and the
\* call made then was refused by the fast window, the slow window's count
\* still at 200.
C25_Witness ==
    \E o \in Ops :
        /\ last.op = o /\ last.by = "fast" /\ last.how = "raised"
        /\ passed[o]["fast"] = CALLS_PER_SECOND /\ ~Elapsed(o, "fast")
        /\ passed[o]["slow"] = CALLS_PER_MINUTE /\ ~Elapsed(o, "slow")
        /\ num_calls[o]["slow"] = CALLS_PER_MINUTE
        /\ num_calls[o]["fast"] > CALLS_PER_SECOND

\* C26: while a gateway call issued by a handler of the terminal UI is in
\* flight, the UI's event loop can still handle input: a key press that is
\* waiting can be dispatched.
C26_InputHandledDuringCall ==
    (ui.handler \in GatewayHandlers /\ pc[1] # "idle" /\ ui.keys # <<>>)
        => ENABLED Dispatch

C28_InstancesShareWindows ==
    [][(/\ pc[1] = "fast" /\ pc'[1] # "fast"
        /\ passed[cur[1]]["fast"] = CALLS_PER_SECOND
        /\ ~Elapsed(cur[1], "fast"))
          => (last'.by = "fast" /\ last'.instance = built.id)]_vars

\* C28 witness: the fast window of an operation was filled through the first
\* instance only, and a call through the second instance has been rejected.
C28_Witness ==
    /\ last.by = "fast" /\ last.instance = 2
    /\ via[last.op] = {1}
    /\ passed[last.op]["fast"] = CALLS_PER_SECOND

\* C29: the probe of __init__ does not go through the limiter: a
\* construction, whether its probe succeeds or fails, leaves the counters and
\* the reset times of all eight windows as they were.
C29_ProbeNotCounted ==
    [][built'.id # built.id
          => (num_calls' = num_calls /\ last_reset' = last_reset /\ passed' = passed)]_vars

\* C29 witness: a second gateway was just constructed and made its probe
\* call, while the windows of get_account_info hold exactly the calls made
\* through the first instance.
C29_Witness ==
    /\ built.id = 2 /\ built.calls = 1
    /\ last.instance = 1 /\ last.op = "get_account_info" /\ last.how = "returned"
    /\ \A w \in Windows :
          num_calls["get_account_info"][w] = admitted["get_account_info"]

\* C30: in every state the gateway is either ready (api set, no reason
\* stored) or not ready (api absent, reason stored), so no call is answered
\* by the 'API not initialized' fallback of the four operations.
C30_ReadyXorNotReady ==
    /\ (api /\ error_message = None) \/ (~api /\ error_message # None)
    /\ last.error \notin {"API not initialized.", "API not initialized (unknown reason)."}

\* C30 witness: a gateway constructed without keys has answered a call with
\* the stored reason.
C30_Witness ==
    /\ ~api /\ error_message = NoKeysMessage
    /\ last.how = "returned" /\ last.error = NoKeysMessage /\ last.remote = 0

==========================================================================
